---------------------------- MODULE Spec2Model ----------------------------
(* A model of the threadweaver editing core: Buffer (line storage, file    *)
(* load/save, text mutation), Selection (anchor/head geometry) and Editor  *)
(* (cursor, mode, clipboard, command accumulator and the commands that     *)
(* compose them).  Strings are sequences of one-character strings; line    *)
(* and column numbers are zero-based as in the source, so line n of the    *)
(* buffer is lines[n+1].  A Go runtime panic (index or slice out of range) *)
(* is the flag "panicked": the process is dead and no command follows.     *)
EXTENDS Integers, Sequences, FiniteSets, TLC

VARIABLES
    lines,      \* Buffer.lines
    filename,   \* Buffer.filename ("" is <<>>)
    dirty,      \* Buffer.dirty
    cursor,     \* Editor.cursor
    selection,  \* Editor.selection
    mode,       \* Editor.mode
    command,    \* Editor.command
    clipboard,  \* Editor.clipboard
    panicked,   \* a runtime panic ended the process
    last,       \* the last call: its name, what it returned, its file I/O
    saved       \* history: the lines as of the last load or write that succeeded

vars == <<lines, filename, dirty, cursor, selection, mode, command, clipboard,
          panicked, last, saved>>

-----------------------------------------------------------------------------
(* Bounds of the model and the inputs the environment draws from.          *)

MaxLines == 2
MaxChars == 1

ModeNormal == 0
ModeInsert == 1
ModeVisual == 2
ModeCommand == 3

Modes == {ModeNormal, ModeInsert, ModeVisual, ModeCommand}

LF == "\n"
CR == "\r"
SP == " "

\* characters typed into the buffer: a word character and a space
Chars == {"a", SP}
Letters == {"a"}

\* coordinates handed to the Buffer primitives: below, inside and beyond the buffer
Coords == -1 .. (MaxChars + 1)
Positions == [Line : Coords, Col : Coords]

\* the deltas of MoveCursor (the four the key handlers use) and the targets of
\* MoveCursorTo (before, at and beyond the buffer in each coordinate)
Steps == {<<0, -1>>, <<0, 1>>, <<-1, 0>>, <<1, 0>>}
Targets == [Line : {-1, 0, MaxLines}, Col : {-1, 0, MaxChars + 1}]

\* the path given to LoadFile
Filenames == {<<"f">>}

\* what os.ReadFile returns: the file is missing, the read fails, or bytes
FileTexts == {<< >>, <<"a">>, <<"a", CR, LF>>}
ReadResults ==
    {[kind |-> "notexist", text |-> << >>], [kind |-> "error", text |-> << >>]}
        \cup {[kind |-> "ok", text |-> t] : t \in FileTexts}

\* the paths and file contents of the file specification: every text of at most
\* MaxChars + 1 characters over a letter, CR and LF
Paths == {<<"f">>, <<"g">>}
FileChars == {"a", CR, LF}
AllTexts == UNION {[1 .. k -> FileChars] : k \in 0 .. (MaxChars + 1)}
AllReadResults ==
    {[kind |-> "notexist", text |-> << >>], [kind |-> "error", text |-> << >>]}
        \cup {[kind |-> "ok", text |-> t] : t \in AllTexts}

\* the files opened in the movement specification: lines of words and spaces
WordTexts == {<<"a", "a", SP, "a">>, <<SP, "a", LF, "a", SP>>}
WordReadResults ==
    {[kind |-> "notexist", text |-> << >>]} \cup {[kind |-> "ok", text |-> t] : t \in WordTexts}

\* what is typed on the command line
CommandInputs == {<<"w">>, <<"q">>, <<"q", "!">>, <<"w", "q">>, <<SP, "q">>, <<"x">>}
CommandChars == {"w", "q", "!", SP, "x"}

-----------------------------------------------------------------------------
(* Strings.                                                                *)

Slice(s, from, to) == SubSeq(s, from + 1, to)

RECURSIVE SumLen(_)
SumLen(ls) == IF ls = << >> THEN 0 ELSE Len(Head(ls)) + SumLen(Tail(ls))

\* the buffers an edit may grow to
Fits(ls) == Len(ls) <= MaxLines /\ SumLen(ls) <= MaxChars

IsPrefix(p, s) == Len(p) <= Len(s) /\ SubSeq(s, 1, Len(p)) = p

\* strings.ReplaceAll(text, "\r\n", "\n")
RECURSIVE ReplaceCRLF(_)
ReplaceCRLF(t) ==
    IF t = << >> THEN << >>
    ELSE IF Len(t) >= 2 /\ t[1] = CR /\ t[2] = LF
         THEN <<LF>> \o ReplaceCRLF(SubSeq(t, 3, Len(t)))
         ELSE <<t[1]>> \o ReplaceCRLF(Tail(t))

\* strings.Split(text, "\n"): always at least one piece
RECURSIVE SplitFrom(_, _)
SplitFrom(t, cur) ==
    IF t = << >> THEN <<cur>>
    ELSE IF Head(t) = LF THEN <<cur>> \o SplitFrom(Tail(t), << >>)
         ELSE SplitFrom(Tail(t), Append(cur, Head(t)))

Split(t) == SplitFrom(t, << >>)

\* strings.Join(lines, "\n")
RECURSIVE Join(_)
Join(ls) ==
    IF ls = << >> THEN << >>
    ELSE IF Len(ls) = 1 THEN ls[1]
         ELSE ls[1] \o <<LF>> \o Join(Tail(ls))

\* unicode.IsSpace on the characters of the model
IsSpace(ch) == ch \in {SP, "\t", LF, CR}

\* strings.TrimSpace
RECURSIVE TrimLeft(_)
TrimLeft(s) == IF s # << >> /\ IsSpace(Head(s)) THEN TrimLeft(Tail(s)) ELSE s

RECURSIVE TrimRight(_)
TrimRight(s) ==
    IF s # << >> /\ IsSpace(s[Len(s)]) THEN TrimRight(SubSeq(s, 1, Len(s) - 1)) ELSE s

TrimSpace(s) == TrimRight(TrimLeft(s))

AlphaNum ==
    {"a", "b", "c", "d", "e", "f", "g", "h", "i", "j", "k", "l", "m",
     "n", "o", "p", "q", "r", "s", "t", "u", "v", "w", "x", "y", "z",
     "A", "B", "C", "D", "E", "F", "G", "H", "I", "J", "K", "L", "M",
     "N", "O", "P", "Q", "R", "S", "T", "U", "V", "W", "X", "Y", "Z",
     "0", "1", "2", "3", "4", "5", "6", "7", "8", "9", "_"}

isAlphaNum(ch) == ch \in AlphaNum

-----------------------------------------------------------------------------
(* Position and Selection.                                                 *)

Pos(l, c) == [Line |-> l, Col |-> c]

NewSelection(pos) == [Anchor |-> pos, Head |-> pos]

IsEmpty(s) == s.Anchor = s.Head

\* Start returning the anchor whatever the direction
Start_IsAnchor(s) == s.Anchor

Start(s) ==
    IF s.Anchor.Line < s.Head.Line
          \/ (s.Anchor.Line = s.Head.Line /\ s.Anchor.Col < s.Head.Col)
    THEN s.Anchor ELSE s.Head

End(s) ==
    IF s.Anchor.Line > s.Head.Line
          \/ (s.Anchor.Line = s.Head.Line /\ s.Anchor.Col > s.Head.Col)
    THEN s.Anchor ELSE s.Head

Contains(s, pos) ==
    LET start == Start(s)
        end == End(s)
    IN  IF pos.Line < start.Line \/ pos.Line > end.Line THEN FALSE
        ELSE IF pos.Line = start.Line /\ pos.Col < start.Col THEN FALSE
        ELSE IF pos.Line = end.Line /\ pos.Col > end.Col THEN FALSE
        ELSE TRUE

ExtendTo(s, pos) == [s EXCEPT !.Head = pos]

-----------------------------------------------------------------------------
(* Buffer.  Each primitive is an operator from the buffer's fields and the *)
(* arguments to the new fields, the returned position and whether the call *)
(* panicked (in which case nothing was written before the panic).          *)

NewBufferLines == << << >> >>

LineCount(ls) == Len(ls)

GetLine(ls, n) == IF n < 0 \/ n >= Len(ls) THEN << >> ELSE ls[n + 1]

BufRes(ls, d, pos, p) == [lines |-> ls, dirty |-> d, pos |-> pos, panic |-> p]

\* InsertChar leaving the dirty flag as it was
Buffer_InsertChar_NotDirty(ls, d, pos, ch) ==
    IF pos.Line >= Len(ls) THEN BufRes(ls, d, pos, FALSE)
    ELSE IF pos.Line < 0 THEN BufRes(ls, d, pos, TRUE)
    ELSE LET line == ls[pos.Line + 1]
             col == IF pos.Col > Len(line) THEN Len(line) ELSE pos.Col
         IN  IF col < 0 THEN BufRes(ls, d, pos, TRUE)
             ELSE BufRes([ls EXCEPT ![pos.Line + 1] =
                              Slice(line, 0, col) \o <<ch>> \o Slice(line, col, Len(line))],
                         d, Pos(pos.Line, col + 1), FALSE)

Buffer_InsertChar(ls, d, pos, ch) ==
    IF pos.Line >= Len(ls) THEN BufRes(ls, d, pos, FALSE)
    ELSE IF pos.Line < 0 THEN BufRes(ls, d, pos, TRUE)
    ELSE LET line == ls[pos.Line + 1]
             col == IF pos.Col > Len(line) THEN Len(line) ELSE pos.Col
         IN  IF col < 0 THEN BufRes(ls, d, pos, TRUE)
             ELSE BufRes([ls EXCEPT ![pos.Line + 1] =
                              Slice(line, 0, col) \o <<ch>> \o Slice(line, col, Len(line))],
                         TRUE, Pos(pos.Line, col + 1), FALSE)

\* InsertNewline leaving the dirty flag as it was
Buffer_InsertNewline_NotDirty(ls, d, pos) ==
    IF pos.Line >= Len(ls) THEN BufRes(ls, d, pos, FALSE)
    ELSE IF pos.Line < 0 THEN BufRes(ls, d, pos, TRUE)
    ELSE LET line == ls[pos.Line + 1]
             col == IF pos.Col > Len(line) THEN Len(line) ELSE pos.Col
         IN  IF col < 0 THEN BufRes(ls, d, pos, TRUE)
             ELSE BufRes(SubSeq(ls, 1, pos.Line) \o <<Slice(line, 0, col)>>
                             \o <<Slice(line, col, Len(line))>>
                             \o SubSeq(ls, pos.Line + 2, Len(ls)),
                         d, Pos(pos.Line + 1, 0), FALSE)

Buffer_InsertNewline(ls, d, pos) ==
    IF pos.Line >= Len(ls) THEN BufRes(ls, d, pos, FALSE)
    ELSE IF pos.Line < 0 THEN BufRes(ls, d, pos, TRUE)
    ELSE LET line == ls[pos.Line + 1]
             col == IF pos.Col > Len(line) THEN Len(line) ELSE pos.Col
         IN  IF col < 0 THEN BufRes(ls, d, pos, TRUE)
             ELSE BufRes(SubSeq(ls, 1, pos.Line) \o <<Slice(line, 0, col)>>
                             \o <<Slice(line, col, Len(line))>>
                             \o SubSeq(ls, pos.Line + 2, Len(ls)),
                         TRUE, Pos(pos.Line + 1, 0), FALSE)

\* DeleteChar marking the buffer dirty at the start of the buffer too
Buffer_DeleteChar_DirtyAtOrigin(ls, d, pos) ==
    IF pos.Line >= Len(ls) THEN BufRes(ls, d, pos, FALSE)
    ELSE IF pos.Line < 0 THEN BufRes(ls, d, pos, TRUE)
    ELSE LET line == ls[pos.Line + 1] IN
         IF pos.Col > 0 /\ pos.Col <= Len(line)
         THEN BufRes([ls EXCEPT ![pos.Line + 1] =
                          Slice(line, 0, pos.Col - 1) \o Slice(line, pos.Col, Len(line))],
                     TRUE, Pos(pos.Line, pos.Col - 1), FALSE)
         ELSE IF pos.Col = 0 /\ pos.Line > 0
         THEN LET prevLine == ls[pos.Line] IN
              BufRes(SubSeq(ls, 1, pos.Line - 1) \o <<prevLine \o line>>
                         \o SubSeq(ls, pos.Line + 2, Len(ls)),
                     TRUE, Pos(pos.Line - 1, Len(prevLine)), FALSE)
         ELSE BufRes(ls, TRUE, pos, FALSE)

Buffer_DeleteChar(ls, d, pos) ==
    IF pos.Line >= Len(ls) THEN BufRes(ls, d, pos, FALSE)
    ELSE IF pos.Line < 0 THEN BufRes(ls, d, pos, TRUE)
    ELSE LET line == ls[pos.Line + 1] IN
         IF pos.Col > 0 /\ pos.Col <= Len(line)
         THEN BufRes([ls EXCEPT ![pos.Line + 1] =
                          Slice(line, 0, pos.Col - 1) \o Slice(line, pos.Col, Len(line))],
                     TRUE, Pos(pos.Line, pos.Col - 1), FALSE)
         ELSE IF pos.Col = 0 /\ pos.Line > 0
         THEN LET prevLine == ls[pos.Line] IN
              BufRes(SubSeq(ls, 1, pos.Line - 1) \o <<prevLine \o line>>
                         \o SubSeq(ls, pos.Line + 2, Len(ls)),
                     TRUE, Pos(pos.Line - 1, Len(prevLine)), FALSE)
         ELSE BufRes(ls, d, pos, FALSE)

\* b.lines[n] and the slice expressions line[:c], line[c:] are in range
InLines(ls, n) == 0 <= n /\ n < Len(ls)
InLine(line, c) == 0 <= c /\ c <= Len(line)

\* RemoveLines with the start line removed as well
RemoveLines_DropStart(ls, startLine, endLine) ==
    SubSeq(ls, 1, startLine) \o SubSeq(ls, endLine + 2, Len(ls))

\* the multi-line path's removal of lines start+1 .. end, the start line kept
RemoveLines(ls, startLine, endLine) ==
    IF endLine + 1 < Len(ls)
    THEN SubSeq(ls, 1, startLine + 1) \o SubSeq(ls, endLine + 2, Len(ls))
    ELSE SubSeq(ls, 1, startLine + 1)

\* DeleteSelection joining the two partial lines but removing no line
Buffer_DeleteSelection_KeepsLines(ls, d, sel) ==
    LET start == Start(sel)
        end == End(sel)
    IN  IF start.Line = end.Line
        THEN IF ~InLines(ls, start.Line) THEN BufRes(ls, d, start, TRUE)
             ELSE LET line == ls[start.Line + 1] IN
                  IF ~InLine(line, start.Col) \/ ~InLine(line, end.Col)
                  THEN BufRes(ls, d, start, TRUE)
                  ELSE BufRes([ls EXCEPT ![start.Line + 1] =
                                   Slice(line, 0, start.Col)
                                       \o Slice(line, end.Col, Len(line))],
                              TRUE, start, FALSE)
        ELSE IF ~InLines(ls, start.Line) \/ ~InLines(ls, end.Line)
             THEN BufRes(ls, d, start, TRUE)
             ELSE IF ~InLine(ls[start.Line + 1], start.Col)
                       \/ ~InLine(ls[end.Line + 1], end.Col)
             THEN BufRes(ls, d, start, TRUE)
             ELSE LET startLine == Slice(ls[start.Line + 1], 0, start.Col)
                      endLine == Slice(ls[end.Line + 1], end.Col, Len(ls[end.Line + 1]))
                      joined == [ls EXCEPT ![start.Line + 1] = startLine \o endLine]
                  IN  BufRes(joined, TRUE, start, FALSE)

Buffer_DeleteSelection(ls, d, sel) ==
    LET start == Start(sel)
        end == End(sel)
    IN  IF start.Line = end.Line
        THEN IF ~InLines(ls, start.Line) THEN BufRes(ls, d, start, TRUE)
             ELSE LET line == ls[start.Line + 1] IN
                  IF ~InLine(line, start.Col) \/ ~InLine(line, end.Col)
                  THEN BufRes(ls, d, start, TRUE)
                  ELSE BufRes([ls EXCEPT ![start.Line + 1] =
                                   Slice(line, 0, start.Col)
                                       \o Slice(line, end.Col, Len(line))],
                              TRUE, start, FALSE)
        ELSE IF ~InLines(ls, start.Line) \/ ~InLines(ls, end.Line)
             THEN BufRes(ls, d, start, TRUE)
             ELSE IF ~InLine(ls[start.Line + 1], start.Col)
                       \/ ~InLine(ls[end.Line + 1], end.Col)
             THEN BufRes(ls, d, start, TRUE)
             ELSE LET startLine == Slice(ls[start.Line + 1], 0, start.Col)
                      endLine == Slice(ls[end.Line + 1], end.Col, Len(ls[end.Line + 1]))
                      joined == [ls EXCEPT ![start.Line + 1] = startLine \o endLine]
                  IN  BufRes(RemoveLines(joined, start.Line, end.Line), TRUE, start, FALSE)

TextRes(t, p) == [text |-> t, panic |-> p]

\* the loop of GetSelectedText over lines i .. end.Line, below len(b.lines)
RECURSIVE SelectedFrom(_, _, _, _)
SelectedFrom(ls, start, end, i) ==
    IF ~(i <= end.Line /\ i < Len(ls)) THEN TextRes(<< >>, FALSE)
    ELSE LET line == GetLine(ls, i)
             rest == SelectedFrom(ls, start, end, i + 1)
         IN  IF i = start.Line
             THEN IF start.Col < Len(line)
                  THEN IF start.Col < 0 THEN TextRes(<< >>, TRUE)
                       ELSE TextRes(Slice(line, start.Col, Len(line)) \o <<LF>> \o rest.text,
                                    rest.panic)
                  ELSE TextRes(<<LF>> \o rest.text, rest.panic)
             ELSE IF i = end.Line
             THEN IF end.Col > 0 /\ end.Col <= Len(line)
                  THEN TextRes(Slice(line, 0, end.Col) \o rest.text, rest.panic)
                  ELSE rest
             ELSE TextRes(line \o <<LF>> \o rest.text, rest.panic)

\* GetSelectedText returning nothing for a selection within one line
Buffer_GetSelectedText_EmptyOnOneLine(ls, sel) ==
    LET start == Start(sel)
        end == End(sel)
    IN  IF start.Line = end.Line THEN TextRes(<< >>, FALSE)
        ELSE SelectedFrom(ls, start, end, start.Line)

Buffer_GetSelectedText(ls, sel) ==
    LET start == Start(sel)
        end == End(sel)
    IN  IF start.Line = end.Line
        THEN LET line == GetLine(ls, start.Line) IN
             IF start.Col >= Len(line) \/ end.Col > Len(line) THEN TextRes(<< >>, FALSE)
             ELSE IF start.Col < 0 THEN TextRes(<< >>, TRUE)
             ELSE TextRes(Slice(line, start.Col, end.Col), FALSE)
        ELSE SelectedFrom(ls, start, end, start.Line)

\* LoadFile: the new lines, filename and dirty flag, and the error returned
FileRes(ls, f, d, e) == [lines |-> ls, filename |-> f, dirty |-> d, err |-> e]

\* LoadFile resetting the buffer on every failed read
Buffer_LoadFile_ResetsOnError(ls, f, d, name, res) ==
    IF res.kind = "notexist" THEN FileRes(NewBufferLines, name, FALSE, FALSE)
    ELSE IF res.kind = "error" THEN FileRes(NewBufferLines, name, FALSE, TRUE)
    ELSE FileRes(IF res.text = << >> THEN NewBufferLines
                 ELSE Split(ReplaceCRLF(res.text)),
                 name, FALSE, FALSE)

Buffer_LoadFile(ls, f, d, name, res) ==
    IF res.kind = "notexist" THEN FileRes(NewBufferLines, name, FALSE, FALSE)
    ELSE IF res.kind = "error" THEN FileRes(ls, f, d, TRUE)
    ELSE FileRes(IF res.text = << >> THEN NewBufferLines
                 ELSE Split(ReplaceCRLF(res.text)),
                 name, FALSE, FALSE)

\* SaveFile: writeOk is whether os.WriteFile succeeds when it is called
SaveRes(d, w, t, e) == [dirty |-> d, wrote |-> w, text |-> t, err |-> e]

\* SaveFile clearing the dirty flag of a buffer that has no filename
Buffer_SaveFile_CleansUnnamed(ls, f, d, writeOk) ==
    IF f = << >> THEN SaveRes(FALSE, FALSE, << >>, FALSE)
    ELSE IF writeOk THEN SaveRes(FALSE, TRUE, Join(ls), FALSE)
    ELSE SaveRes(d, FALSE, << >>, TRUE)

\* SaveFile clearing the dirty flag when the write failed too
Buffer_SaveFile_ClearsOnFailure(ls, f, d, writeOk) ==
    IF f = << >> THEN SaveRes(d, FALSE, << >>, FALSE)
    ELSE IF writeOk THEN SaveRes(FALSE, TRUE, Join(ls), FALSE)
    ELSE SaveRes(FALSE, FALSE, << >>, TRUE)

\* SaveFile ending every line, the last included, with a line break
Buffer_SaveFile_TerminatesLines(ls, f, d, writeOk) ==
    IF f = << >> THEN SaveRes(d, FALSE, << >>, FALSE)
    ELSE IF writeOk THEN SaveRes(FALSE, TRUE, Join(ls) \o <<LF>>, FALSE)
    ELSE SaveRes(d, FALSE, << >>, TRUE)

Buffer_SaveFile(ls, f, d, writeOk) ==
    IF f = << >> THEN SaveRes(d, FALSE, << >>, FALSE)
    ELSE IF writeOk THEN SaveRes(FALSE, TRUE, Join(ls), FALSE)
    ELSE SaveRes(d, FALSE, << >>, TRUE)

-----------------------------------------------------------------------------
(* Editor: the pure parts of its commands.                                 *)

\* clampCursor without the clamp of a negative column
clampCursor_NoColumnFloor(ls, m, c) ==
    LET l1 == IF c.Line < 0 THEN 0 ELSE c.Line
        l2 == IF l1 >= LineCount(ls) THEN LineCount(ls) - 1 ELSE l1
        l3 == IF l2 < 0 THEN 0 ELSE l2
        lineLen == Len(GetLine(ls, l3))
        c1 == IF m = ModeNormal /\ lineLen > 0
              THEN (IF c.Col >= lineLen THEN lineLen - 1 ELSE c.Col)
              ELSE (IF c.Col > lineLen THEN lineLen ELSE c.Col)
    IN  Pos(l3, c1)

clampCursor(ls, m, c) ==
    LET l1 == IF c.Line < 0 THEN 0 ELSE c.Line
        l2 == IF l1 >= LineCount(ls) THEN LineCount(ls) - 1 ELSE l1
        l3 == IF l2 < 0 THEN 0 ELSE l2
        lineLen == Len(GetLine(ls, l3))
        c1 == IF m = ModeNormal /\ lineLen > 0
              THEN (IF c.Col >= lineLen THEN lineLen - 1 ELSE c.Col)
              ELSE (IF c.Col > lineLen THEN lineLen ELSE c.Col)
        c2 == IF c1 < 0 THEN 0 ELSE c1
    IN  Pos(l3, c2)

\* a movement collapsing the selection in Visual mode too
MoveSelection_AlwaysCollapse(m, sel, c) == NewSelection(c)

\* the tail of every movement: extend the head in Visual, else collapse
MoveSelection(m, sel, c) == IF m = ModeVisual THEN ExtendTo(sel, c) ELSE NewSelection(c)

\* SetMode collapsing the selection on every mode, Visual included
SetModeSelection_AlwaysCollapse(m, sel, c) == NewSelection(c)

\* SetMode's effect on the selection
SetModeSelection(m, sel, c) == IF m # ModeVisual THEN NewSelection(c) ELSE sel

ColRes(c, p) == [col |-> c, panic |-> p]

\* the scan loop of MoveWordForward; line[col] panics on a negative col
RECURSIVE WordForwardScan(_, _, _)
WordForwardScan(line, col, inWord) ==
    IF ~(col < Len(line)) THEN ColRes(col, FALSE)
    ELSE IF col < 0 THEN ColRes(col, TRUE)
    ELSE LET an == isAlphaNum(line[col + 1]) IN
         IF ~inWord /\ an THEN WordForwardScan(line, col + 1, TRUE)
         ELSE IF inWord /\ ~an THEN ColRes(col, FALSE)
         ELSE WordForwardScan(line, col + 1, inWord)

\* the first loop of MoveWordBackward: skip spaces
RECURSIVE SkipSpacesBack(_, _)
SkipSpacesBack(line, col) ==
    IF ~(col > 0) THEN ColRes(col, FALSE)
    ELSE IF col >= Len(line) THEN ColRes(col, TRUE)
    ELSE IF line[col + 1] = SP THEN SkipSpacesBack(line, col - 1)
    ELSE ColRes(col, FALSE)

\* the second loop of MoveWordBackward: back to a word start
RECURSIVE WordBackScan(_, _)
WordBackScan(line, col) ==
    IF ~(col > 0) THEN ColRes(col, FALSE)
    ELSE IF col >= Len(line) THEN ColRes(col, TRUE)
    ELSE IF ~isAlphaNum(line[col]) /\ isAlphaNum(line[col + 1]) THEN ColRes(col, FALSE)
    ELSE WordBackScan(line, col - 1)

\* the two loops of SelectWord
RECURSIVE WordStart(_, _)
WordStart(line, start) ==
    IF start > 0 /\ isAlphaNum(line[start]) THEN WordStart(line, start - 1) ELSE start

\* the end loop of SelectWord stopping after one character
WordEnd_OneChar(line, end) == end + 1

RECURSIVE WordEnd(_, _)
WordEnd(line, end) ==
    IF end < Len(line) /\ isAlphaNum(line[end + 1]) THEN WordEnd(line, end + 1) ELSE end

\* Paste's inner loop: InsertChar for each rune of a piece
RECURSIVE InsertRunes(_, _, _, _)
InsertRunes(ls, d, pos, text) ==
    IF text = << >> THEN BufRes(ls, d, pos, FALSE)
    ELSE LET r == Buffer_InsertChar(ls, d, pos, Head(text)) IN
         IF r.panic THEN r ELSE InsertRunes(r.lines, r.dirty, r.pos, Tail(text))

\* Paste's outer loop: the pieces between line breaks, a newline after each but the last
RECURSIVE PasteLines(_, _, _, _, _)
PasteLines(ls, d, pos, pieces, i) ==
    IF i > Len(pieces) THEN BufRes(ls, d, pos, FALSE)
    ELSE LET r == InsertRunes(ls, d, pos, pieces[i]) IN
         IF r.panic THEN r
         ELSE IF i < Len(pieces)
         THEN LET n == Buffer_InsertNewline(r.lines, r.dirty, r.pos) IN
              IF n.panic THEN n ELSE PasteLines(n.lines, n.dirty, n.pos, pieces, i + 1)
         ELSE r

\* Paste inserting the clipboard's characters and none of its line breaks
Editor_Paste_NoNewlines(ls, d, pos, clip) ==
    InsertRunes(ls, d, pos, SelectSeq(clip, LAMBDA ch : ch # LF))

Editor_Paste(ls, d, pos, clip) ==
    LET pieces == Split(clip) IN
    IF Len(pieces) = 1 THEN InsertRunes(ls, d, pos, clip)
    ELSE PasteLines(ls, d, pos, pieces, 1)

\* YankSelection, DeleteSelection and Paste called in a row on a non-empty
\* selection: the Editor's fields after the third call
EdRes(ls, d, c, sel, clip, p) ==
    [lines |-> ls, dirty |-> d, cursor |-> c, selection |-> sel, clipboard |-> clip,
     panic |-> p]

Editor_YankDeletePaste(ls, d, m, c, sel, clip) ==
    LET y == Buffer_GetSelectedText(ls, sel)
        del == Buffer_DeleteSelection(ls, d, sel)
        c1 == clampCursor(del.lines, m, del.pos)
        p == Editor_Paste(del.lines, del.dirty, c1, y.text)
    IN  IF y.panic \/ del.panic THEN EdRes(ls, d, c, sel, clip, TRUE)
        ELSE IF y.text = << >>
        THEN EdRes(del.lines, del.dirty, c1, NewSelection(del.pos), y.text, FALSE)
        ELSE IF p.panic THEN EdRes(ls, d, c, sel, clip, TRUE)
        ELSE EdRes(p.lines, p.dirty, p.pos, NewSelection(p.pos), y.text, FALSE)

\* ExecuteCommand: what it returns and what its save did
ExecRes(q, n, sv) ==
    [command |-> << >>, quit |-> q, saves |-> n,
     dirty |-> sv.dirty, wrote |-> sv.wrote, err |-> sv.err]

\* ExecuteCommand with "q" quitting a dirty buffer
Editor_ExecuteCommand_QuitsDirty(acc, ls, f, d, writeOk) ==
    LET cmd == TrimSpace(acc)
        none == SaveRes(d, FALSE, << >>, FALSE)
    IN  IF cmd = <<"w">> THEN ExecRes(FALSE, 1, Buffer_SaveFile(ls, f, d, writeOk))
        ELSE IF cmd = <<"q">> THEN ExecRes(TRUE, 0, none)
        ELSE IF cmd = <<"q", "!">> THEN ExecRes(TRUE, 0, none)
        ELSE IF cmd = <<"w", "q">> THEN ExecRes(TRUE, 1, Buffer_SaveFile(ls, f, d, writeOk))
        ELSE ExecRes(FALSE, 0, none)

\* ExecuteCommand with "wq" quitting only when the save returned no error
Editor_ExecuteCommand_QuitNeedsSave(acc, ls, f, d, writeOk) ==
    LET cmd == TrimSpace(acc)
        none == SaveRes(d, FALSE, << >>, FALSE)
        sv == Buffer_SaveFile(ls, f, d, writeOk)
    IN  IF cmd = <<"w">> THEN ExecRes(FALSE, 1, sv)
        ELSE IF cmd = <<"q">> THEN ExecRes(~d, 0, none)
        ELSE IF cmd = <<"q", "!">> THEN ExecRes(TRUE, 0, none)
        ELSE IF cmd = <<"w", "q">> THEN ExecRes(~sv.err, 1, sv)
        ELSE ExecRes(FALSE, 0, none)

\* ExecuteCommand clearing the accumulator only for the commands it knows
Editor_ExecuteCommand_KeepsUnknown(acc, ls, f, d, writeOk) ==
    LET cmd == TrimSpace(acc)
        none == SaveRes(d, FALSE, << >>, FALSE)
    IN  IF cmd = <<"w">> THEN ExecRes(FALSE, 1, Buffer_SaveFile(ls, f, d, writeOk))
        ELSE IF cmd = <<"q">> THEN ExecRes(~d, 0, none)
        ELSE IF cmd = <<"q", "!">> THEN ExecRes(TRUE, 0, none)
        ELSE IF cmd = <<"w", "q">> THEN ExecRes(TRUE, 1, Buffer_SaveFile(ls, f, d, writeOk))
        ELSE [ExecRes(FALSE, 0, none) EXCEPT !.command = acc]

Editor_ExecuteCommand(acc, ls, f, d, writeOk) ==
    LET cmd == TrimSpace(acc)
        none == SaveRes(d, FALSE, << >>, FALSE)
    IN  IF cmd = <<"w">> THEN ExecRes(FALSE, 1, Buffer_SaveFile(ls, f, d, writeOk))
        ELSE IF cmd = <<"q">> THEN ExecRes(~d, 0, none)
        ELSE IF cmd = <<"q", "!">> THEN ExecRes(TRUE, 0, none)
        ELSE IF cmd = <<"w", "q">> THEN ExecRes(TRUE, 1, Buffer_SaveFile(ls, f, d, writeOk))
        ELSE ExecRes(FALSE, 0, none)

-----------------------------------------------------------------------------
(* The state machine.                                                      *)

\* the record of a call: op its name, arg the mode given to SetMode, the path
\* given to LoadFile or the coordinates on which a Buffer method called directly
\* panicked (-1 otherwise), cmd the trimmed command ExecuteCommand ran, quit what
\* it returned, saves the number of SaveFile calls made, wrote whether the file
\* was written, err whether an error was returned, dl the change of LineCount(),
\* read what os.ReadFile returned to LoadFile, text the bytes LoadFile read or
\* SaveFile wrote or GetSelectedText returned, pos the position a Buffer method
\* called directly returned (-1 otherwise)
Ret(op) ==
    [op |-> op, arg |-> -1, cmd |-> << >>, quit |-> FALSE, saves |-> 0, wrote |-> FALSE,
     err |-> FALSE, dl |-> 0, read |-> "none", text |-> << >>, pos |-> -1]

\* New() and NewBuffer()
Init ==
    /\ lines = NewBufferLines
    /\ filename = << >>
    /\ dirty = FALSE
    /\ cursor = Pos(0, 0)
    /\ selection = NewSelection(Pos(0, 0))
    /\ mode = ModeNormal
    /\ command = << >>
    /\ clipboard = << >>
    /\ panicked = FALSE
    /\ last = Ret("New")
    /\ saved = NewBufferLines

\* a runtime panic inside call op: the process dies with its state as it was
Panic(op) ==
    /\ panicked' = TRUE
    /\ last' = Ret(op)
    /\ UNCHANGED <<lines, filename, dirty, cursor, selection, mode, command, clipboard, saved>>

\* a call that only moves the cursor and the selection
Moved(op, c, sel) ==
    /\ cursor' = c
    /\ selection' = sel
    /\ last' = Ret(op)
    /\ UNCHANGED <<lines, filename, dirty, mode, command, clipboard, panicked, saved>>

\* a call that edits the buffer through a Buffer primitive's result r
Edited(op, r, c, sel) ==
    /\ lines' = r.lines
    /\ dirty' = r.dirty
    /\ cursor' = c
    /\ selection' = sel
    /\ last' = [Ret(op) EXCEPT !.dl = Len(r.lines) - Len(lines)]
    /\ UNCHANGED <<filename, mode, command, clipboard, panicked, saved>>

LoadFile(name, res) ==
    /\ ~panicked
    /\ LET r == Buffer_LoadFile(lines, filename, dirty, name, res) IN
       /\ lines' = r.lines
       /\ filename' = r.filename
       /\ dirty' = r.dirty
       /\ saved' = IF r.err THEN saved ELSE r.lines
       /\ last' = [Ret("LoadFile") EXCEPT !.arg = name, !.err = r.err,
                       !.dl = Len(r.lines) - Len(lines), !.read = res.kind,
                       !.text = res.text]
    /\ UNCHANGED <<cursor, selection, mode, command, clipboard, panicked>>

\* main: the file named on the command line is loaded before the first key
OpenFile(name, res) ==
    /\ last.op = "New"
    /\ LoadFile(name, res)

SaveFile(writeOk) ==
    /\ ~panicked
    /\ LET r == Buffer_SaveFile(lines, filename, dirty, writeOk) IN
       /\ dirty' = r.dirty
       /\ saved' = IF r.wrote THEN lines ELSE saved
       /\ last' = [Ret("SaveFile") EXCEPT !.saves = 1, !.wrote = r.wrote, !.err = r.err,
                       !.text = r.text]
    /\ UNCHANGED <<lines, filename, cursor, selection, mode, command, clipboard, panicked>>

SetMode(m) ==
    /\ ~panicked
    /\ mode' = m
    /\ selection' = SetModeSelection(m, selection, cursor)
    /\ last' = [Ret("SetMode") EXCEPT !.arg = m]
    /\ UNCHANGED <<lines, filename, dirty, cursor, command, clipboard, panicked, saved>>

MoveCursor(dLine, dCol) ==
    /\ ~panicked
    /\ LET c == clampCursor(lines, mode, Pos(cursor.Line + dLine, cursor.Col + dCol)) IN
       Moved("MoveCursor", c, MoveSelection(mode, selection, c))

MoveCursorTo(pos) ==
    /\ ~panicked
    /\ LET c == clampCursor(lines, mode, pos) IN
       Moved("MoveCursorTo", c, MoveSelection(mode, selection, c))

MoveToLineStart ==
    /\ ~panicked
    /\ LET c == Pos(cursor.Line, 0) IN
       Moved("MoveToLineStart", c, MoveSelection(mode, selection, c))

MoveToLineEnd ==
    /\ ~panicked
    /\ LET lineLen == Len(GetLine(lines, cursor.Line))
           c == IF mode = ModeNormal /\ lineLen > 0
                THEN Pos(cursor.Line, lineLen - 1) ELSE Pos(cursor.Line, lineLen)
       IN  Moved("MoveToLineEnd", c, MoveSelection(mode, selection, c))

MoveWordForward ==
    /\ ~panicked
    /\ LET line == GetLine(lines, cursor.Line)
           scan == WordForwardScan(line, cursor.Col, FALSE)
           raw == IF scan.col = cursor.Col /\ cursor.Line < LineCount(lines) - 1
                  THEN Pos(cursor.Line + 1, 0) ELSE Pos(cursor.Line, scan.col)
           c == clampCursor(lines, mode, raw)
       IN  IF scan.panic THEN Panic("MoveWordForward")
           ELSE Moved("MoveWordForward", c, MoveSelection(mode, selection, c))

MoveWordBackward ==
    /\ ~panicked
    /\ IF cursor.Col = 0
       THEN LET raw == IF cursor.Line > 0
                       THEN Pos(cursor.Line - 1, Len(GetLine(lines, cursor.Line - 1)))
                       ELSE cursor
                c == clampCursor(lines, mode, raw)
            IN  Moved("MoveWordBackward", c, MoveSelection(mode, selection, c))
       ELSE LET line == GetLine(lines, cursor.Line)
                skip == SkipSpacesBack(line, cursor.Col - 1)
                scan == IF skip.panic THEN skip ELSE WordBackScan(line, skip.col)
                c == clampCursor(lines, mode, Pos(cursor.Line, scan.col))
            IN  IF scan.panic THEN Panic("MoveWordBackward")
                ELSE Moved("MoveWordBackward", c, MoveSelection(mode, selection, c))

SelectLine ==
    /\ ~panicked
    /\ LET lineLen == Len(GetLine(lines, cursor.Line))
           head == Pos(cursor.Line, lineLen)
       IN  Moved("SelectLine", head, [Anchor |-> Pos(cursor.Line, 0), Head |-> head])

SelectWord ==
    /\ ~panicked
    /\ LET line == GetLine(lines, cursor.Line) IN
       IF cursor.Col >= Len(line) THEN Moved("SelectWord", cursor, selection)
       ELSE IF cursor.Col < 0 THEN Panic("SelectWord")
       ELSE IF ~isAlphaNum(line[cursor.Col + 1]) THEN Moved("SelectWord", cursor, selection)
       ELSE LET head == Pos(cursor.Line, WordEnd(line, cursor.Col)) IN
            Moved("SelectWord", head,
                  [Anchor |-> Pos(cursor.Line, WordStart(line, cursor.Col)), Head |-> head])

DeleteSelection ==
    /\ ~panicked
    /\ IF IsEmpty(selection) THEN Moved("DeleteSelection", cursor, selection)
       ELSE LET r == Buffer_DeleteSelection(lines, dirty, selection) IN
            IF r.panic THEN Panic("DeleteSelection")
            ELSE Edited("DeleteSelection", r,
                        clampCursor(r.lines, mode, r.pos), NewSelection(r.pos))

YankSelection ==
    /\ ~panicked
    /\ IF IsEmpty(selection)
       THEN /\ last' = Ret("YankSelection")
            /\ UNCHANGED <<lines, filename, dirty, cursor, selection, mode, command,
                           clipboard, panicked, saved>>
       ELSE LET r == Buffer_GetSelectedText(lines, selection) IN
            IF r.panic THEN Panic("YankSelection")
            ELSE /\ clipboard' = r.text
                 /\ last' = Ret("YankSelection")
                 /\ UNCHANGED <<lines, filename, dirty, cursor, selection, mode, command,
                                panicked, saved>>

Paste ==
    /\ ~panicked
    /\ IF clipboard = << >> THEN Moved("Paste", cursor, selection)
       ELSE LET r == Editor_Paste(lines, dirty, cursor, clipboard) IN
            IF r.panic THEN Panic("Paste")
            ELSE Fits(r.lines) /\ Edited("Paste", r, r.pos, NewSelection(r.pos))

\* the three calls YankSelection; DeleteSelection; Paste on a non-empty selection
YankDeletePaste ==
    /\ ~panicked
    /\ ~IsEmpty(selection)
    /\ LET r == Editor_YankDeletePaste(lines, dirty, mode, cursor, selection, clipboard) IN
       IF r.panic THEN Panic("YankDeletePaste")
       ELSE /\ lines' = r.lines
            /\ dirty' = r.dirty
            /\ cursor' = r.cursor
            /\ selection' = r.selection
            /\ clipboard' = r.clipboard
            /\ last' = [Ret("YankDeletePaste") EXCEPT !.dl = Len(r.lines) - Len(lines)]
            /\ UNCHANGED <<filename, mode, command, panicked, saved>>

InsertChar(ch) ==
    /\ ~panicked
    /\ LET r == Buffer_InsertChar(lines, dirty, cursor, ch) IN
       IF r.panic THEN Panic("InsertChar")
       ELSE Fits(r.lines) /\ Edited("InsertChar", r, r.pos, NewSelection(r.pos))

InsertNewline ==
    /\ ~panicked
    /\ LET r == Buffer_InsertNewline(lines, dirty, cursor) IN
       IF r.panic THEN Panic("InsertNewline")
       ELSE Fits(r.lines) /\ Edited("InsertNewline", r, r.pos, NewSelection(r.pos))

Backspace ==
    /\ ~panicked
    /\ LET r == Buffer_DeleteChar(lines, dirty, cursor) IN
       IF r.panic THEN Panic("Backspace")
       ELSE Edited("Backspace", r, clampCursor(r.lines, mode, r.pos), NewSelection(r.pos))

\* a call that only changes the command accumulator
Typed(op, acc) ==
    /\ command' = acc
    /\ last' = Ret(op)
    /\ UNCHANGED <<lines, filename, dirty, cursor, selection, mode, clipboard, panicked, saved>>

AppendCommand(ch) ==
    /\ ~panicked
    /\ \E s \in CommandInputs : IsPrefix(Append(command, ch), s)
    /\ Typed("AppendCommand", Append(command, ch))

BackspaceCommand ==
    /\ ~panicked
    /\ Typed("BackspaceCommand",
             IF Len(command) > 0 THEN SubSeq(command, 1, Len(command) - 1) ELSE command)

ClearCommand ==
    /\ ~panicked
    /\ Typed("ClearCommand", << >>)

ExecuteCommand(writeOk) ==
    /\ ~panicked
    /\ LET r == Editor_ExecuteCommand(command, lines, filename, dirty, writeOk) IN
       /\ command' = r.command
       /\ dirty' = r.dirty
       /\ saved' = IF r.wrote THEN lines ELSE saved
       /\ last' = [Ret("ExecuteCommand") EXCEPT !.cmd = TrimSpace(command),
                       !.quit = r.quit, !.saves = r.saves, !.wrote = r.wrote, !.err = r.err]
    /\ UNCHANGED <<lines, filename, cursor, selection, mode, clipboard, panicked>>

\* the Buffer primitives called directly, with any coordinates
BufferCall(op, arg, r) ==
    IF r.panic
    THEN /\ panicked' = TRUE
         /\ last' = [Ret(op) EXCEPT !.arg = arg]
         /\ UNCHANGED <<lines, filename, dirty, cursor, selection, mode, command,
                        clipboard, saved>>
    ELSE /\ Fits(r.lines)
         /\ lines' = r.lines
         /\ dirty' = r.dirty
         /\ last' = [Ret(op) EXCEPT !.dl = Len(r.lines) - Len(lines)]
         /\ UNCHANGED <<filename, cursor, selection, mode, command, clipboard, panicked, saved>>

BufferGetLine(n) ==
    /\ ~panicked
    /\ BufferCall("Buffer.GetLine", n,
                  BufRes(lines, dirty, Pos(n, Len(GetLine(lines, n))), FALSE))

BufferInsertChar(pos, ch) ==
    /\ ~panicked
    /\ BufferCall("Buffer.InsertChar", pos, Buffer_InsertChar(lines, dirty, pos, ch))

BufferInsertNewline(pos) ==
    /\ ~panicked
    /\ BufferCall("Buffer.InsertNewline", pos, Buffer_InsertNewline(lines, dirty, pos))

BufferDeleteChar(pos) ==
    /\ ~panicked
    /\ BufferCall("Buffer.DeleteChar", pos, Buffer_DeleteChar(lines, dirty, pos))

BufferDeleteSelection(sel) ==
    /\ ~panicked
    /\ BufferCall("Buffer.DeleteSelection", sel, Buffer_DeleteSelection(lines, dirty, sel))

BufferGetSelectedText(sel) ==
    /\ ~panicked
    /\ BufferCall("Buffer.GetSelectedText", sel,
                  BufRes(lines, dirty, Start(sel), Buffer_GetSelectedText(lines, sel).panic))

\* the Buffer primitives called with coordinates inside the buffer (a line that
\* exists, a column from 0 to the length of that line), the call's argument and
\* what it returned recorded
Inside(ls, pos) ==
    /\ 0 <= pos.Line
    /\ pos.Line < Len(ls)
    /\ 0 <= pos.Col
    /\ pos.Col <= Len(ls[pos.Line + 1])

CallInside(op, arg, r, text) ==
    IF r.panic THEN Panic(op)
    ELSE /\ Fits(r.lines)
         /\ lines' = r.lines
         /\ dirty' = r.dirty
         /\ last' = [Ret(op) EXCEPT !.arg = arg, !.dl = Len(r.lines) - Len(lines),
                         !.pos = r.pos, !.text = text]
         /\ UNCHANGED <<filename, cursor, selection, mode, command, clipboard, panicked, saved>>

InsertCharInside(pos, ch) ==
    /\ ~panicked
    /\ Inside(lines, pos)
    /\ CallInside("Buffer.InsertChar", pos, Buffer_InsertChar(lines, dirty, pos, ch), << >>)

InsertNewlineInside(pos) ==
    /\ ~panicked
    /\ Inside(lines, pos)
    /\ CallInside("Buffer.InsertNewline", pos, Buffer_InsertNewline(lines, dirty, pos), << >>)

DeleteCharInside(pos) ==
    /\ ~panicked
    /\ Inside(lines, pos)
    /\ CallInside("Buffer.DeleteChar", pos, Buffer_DeleteChar(lines, dirty, pos), << >>)

DeleteSelectionInside(sel) ==
    /\ ~panicked
    /\ Inside(lines, sel.Anchor)
    /\ Inside(lines, sel.Head)
    /\ CallInside("Buffer.DeleteSelection", sel,
                  Buffer_DeleteSelection(lines, dirty, sel), << >>)

GetSelectedTextInside(sel) ==
    /\ ~panicked
    /\ Inside(lines, sel.Anchor)
    /\ Inside(lines, sel.Head)
    /\ LET t == Buffer_GetSelectedText(lines, sel) IN
       CallInside("Buffer.GetSelectedText", sel,
                  BufRes(lines, dirty, Start(sel), t.panic), t.text)

-----------------------------------------------------------------------------
(* Specifications.  Spec drives every Editor command that touches the      *)
(* buffer, cursor, selection, mode or clipboard; SpecEdit the commands     *)
(* that edit; SpecDirty the edits with load and save; SpecCmd the command  *)
(* line with load, save and enough edits to dirty the buffer; SpecBuffer   *)
(* the Buffer methods alone, called with any coordinates; SpecFile load    *)
(* and save over every small file content and two paths; SpecRange the     *)
(* Buffer methods called with coordinates inside the buffer; SpecSession   *)
(* a session of the program: the file is loaded once, before any command;  *)
(* SpecMove a session of movement and selection over lines of words;       *)
(* SpecForward a session that ends in MoveWordForward repeated for ever;   *)
(* SpecEditor a session of every Editor command on buffer, cursor,         *)
(* selection, mode and clipboard; SpecClip a session of selections over    *)
(* lines of words, each yanked, deleted and pasted back; SpecQuit every    *)
(* edit with load, save and the command line.                              *)

Next ==
    \/ \E name \in Filenames, res \in ReadResults : LoadFile(name, res)
    \/ \E m \in Modes : SetMode(m)
    \/ \E d \in Steps : MoveCursor(d[1], d[2])
    \/ \E pos \in Targets : MoveCursorTo(pos)
    \/ MoveToLineStart
    \/ MoveToLineEnd
    \/ MoveWordForward
    \/ MoveWordBackward
    \/ SelectLine
    \/ SelectWord
    \/ DeleteSelection
    \/ YankSelection
    \/ Paste
    \/ \E ch \in Chars : InsertChar(ch)
    \/ InsertNewline
    \/ Backspace

Spec == Init /\ [][Next]_vars

NextEdit ==
    \/ \E name \in Filenames, res \in ReadResults : LoadFile(name, res)
    \/ \E m \in Modes : SetMode(m)
    \/ \E d \in Steps : MoveCursor(d[1], d[2])
    \/ SelectLine
    \/ DeleteSelection
    \/ YankSelection
    \/ Paste
    \/ \E ch \in Letters : InsertChar(ch)
    \/ InsertNewline
    \/ Backspace

SpecEdit == Init /\ [][NextEdit]_vars

NextDirty ==
    \/ \E name \in Filenames, res \in ReadResults : LoadFile(name, res)
    \/ \E ok \in BOOLEAN : SaveFile(ok)
    \/ SelectLine
    \/ DeleteSelection
    \/ YankSelection
    \/ Paste
    \/ \E ch \in Letters : InsertChar(ch)
    \/ InsertNewline
    \/ Backspace

SpecDirty == Init /\ [][NextDirty]_vars

NextCmd ==
    \/ \E name \in Filenames, res \in ReadResults : LoadFile(name, res)
    \/ \E ok \in BOOLEAN : SaveFile(ok)
    \/ \E m \in Modes : SetMode(m)
    \/ \E d \in Steps : MoveCursor(d[1], d[2])
    \/ \E ch \in Letters : InsertChar(ch)
    \/ Backspace
    \/ \E ch \in CommandChars : AppendCommand(ch)
    \/ BackspaceCommand
    \/ ClearCommand
    \/ \E ok \in BOOLEAN : ExecuteCommand(ok)

SpecCmd == Init /\ [][NextCmd]_vars

NextBuffer ==
    \/ \E a \in Positions, h \in Positions : BufferDeleteSelection([Anchor |-> a, Head |-> h])
    \/ \E a \in Positions, h \in Positions : BufferGetSelectedText([Anchor |-> a, Head |-> h])
    \/ \E n \in Coords : BufferGetLine(n)
    \/ \E pos \in Positions, ch \in Chars : BufferInsertChar(pos, ch)
    \/ \E pos \in Positions : BufferInsertNewline(pos)
    \/ \E pos \in Positions : BufferDeleteChar(pos)
    \/ \E name \in Filenames, res \in ReadResults : LoadFile(name, res)
    \/ \E ok \in BOOLEAN : SaveFile(ok)

SpecBuffer == Init /\ [][NextBuffer]_vars

NextFile ==
    \/ \E name \in Paths, res \in AllReadResults : LoadFile(name, res)
    \/ \E ok \in BOOLEAN : SaveFile(ok)
    \/ \E ch \in Letters : InsertChar(ch)
    \/ Backspace

SpecFile == Init /\ [][NextFile]_vars

NextRange ==
    \/ \E pos \in Positions, ch \in Chars : InsertCharInside(pos, ch)
    \/ \E pos \in Positions : InsertNewlineInside(pos)
    \/ \E pos \in Positions : DeleteCharInside(pos)
    \/ \E a \in Positions, h \in Positions : DeleteSelectionInside([Anchor |-> a, Head |-> h])
    \/ \E a \in Positions, h \in Positions : GetSelectedTextInside([Anchor |-> a, Head |-> h])

SpecRange == Init /\ [][NextRange]_vars

NextSession ==
    \/ \E name \in Filenames, res \in ReadResults : OpenFile(name, res)
    \/ \E m \in Modes : SetMode(m)
    \/ \E d \in Steps : MoveCursor(d[1], d[2])
    \/ SelectLine
    \/ DeleteSelection
    \/ YankSelection
    \/ Paste
    \/ \E ch \in Letters : InsertChar(ch)
    \/ InsertNewline
    \/ Backspace

SpecSession == Init /\ [][NextSession]_vars

NextMove ==
    \/ \E name \in Filenames, res \in WordReadResults : OpenFile(name, res)
    \/ \E m \in Modes : SetMode(m)
    \/ \E d \in Steps : MoveCursor(d[1], d[2])
    \/ \E pos \in Targets : MoveCursorTo(pos)
    \/ MoveToLineStart
    \/ MoveToLineEnd
    \/ MoveWordForward
    \/ MoveWordBackward
    \/ SelectLine
    \/ SelectWord
    \/ \E ch \in Chars : InsertChar(ch)
    \/ Backspace

SpecMove == Init /\ [][NextMove]_vars

NextEditor ==
    \/ \E name \in Filenames, res \in ReadResults : OpenFile(name, res)
    \/ \E m \in Modes : SetMode(m)
    \/ \E d \in Steps : MoveCursor(d[1], d[2])
    \/ \E pos \in Targets : MoveCursorTo(pos)
    \/ MoveToLineStart
    \/ MoveToLineEnd
    \/ MoveWordForward
    \/ MoveWordBackward
    \/ SelectLine
    \/ SelectWord
    \/ DeleteSelection
    \/ YankSelection
    \/ Paste
    \/ \E ch \in Letters : InsertChar(ch)
    \/ InsertNewline
    \/ Backspace

SpecEditor == Init /\ [][NextEditor]_vars

NextClip ==
    \/ \E name \in Filenames, res \in WordReadResults : OpenFile(name, res)
    \/ \E m \in Modes : SetMode(m)
    \/ \E d \in Steps : MoveCursor(d[1], d[2])
    \/ SelectLine
    \/ SelectWord
    \/ \E ch \in Letters : InsertChar(ch)
    \/ InsertNewline
    \/ YankDeletePaste

SpecClip == Init /\ [][NextClip]_vars

NextQuit ==
    \/ \E name \in Filenames, res \in ReadResults : LoadFile(name, res)
    \/ \E ok \in BOOLEAN : SaveFile(ok)
    \/ SelectLine
    \/ DeleteSelection
    \/ YankSelection
    \/ Paste
    \/ \E ch \in Letters : InsertChar(ch)
    \/ InsertNewline
    \/ Backspace
    \/ \E ch \in CommandChars : AppendCommand(ch)
    \/ \E ok \in BOOLEAN : ExecuteCommand(ok)

SpecQuit == Init /\ [][NextQuit]_vars

\* a file is opened, the mode chosen and the cursor placed; from the first
\* MoveWordForward on nothing but MoveWordForward is invoked, again and again
NextForward ==
    \/ /\ last.op # "MoveWordForward"
       /\ \/ \E name \in Filenames, res \in WordReadResults : OpenFile(name, res)
          \/ \E m \in Modes : SetMode(m)
          \/ \E d \in Steps : MoveCursor(d[1], d[2])
          \/ MoveToLineEnd
    \/ MoveWordForward

SpecForward == Init /\ [][NextForward]_vars /\ WF_vars(MoveWordForward)

-----------------------------------------------------------------------------
(* Properties of the cursor, the selection and the mode.                   *)

Max(a, b) == IF a >= b THEN a ELSE b

\* C1: after every Editor command the cursor's line is within
\* [0, LineCount()) and its column within [0, max(lineLength-1, 0)] in Normal
\* mode, within [0, lineLength] in every other mode.
C1_CursorWithinModeClamp ==
    LET lineLength == Len(GetLine(lines, cursor.Line)) IN
    /\ 0 <= cursor.Line
    /\ cursor.Line < LineCount(lines)
    /\ 0 <= cursor.Col
    /\ cursor.Col <= (IF mode = ModeNormal THEN Max(lineLength - 1, 0) ELSE lineLength)

\* C2: outside Visual mode the selection is the empty selection at the cursor.
C2_SelectionTracksCursor ==
    mode # ModeVisual => (selection.Anchor = cursor /\ selection.Head = cursor)

\* C3: the buffer always holds at least one line.
C3_LinesNeverEmpty == LineCount(lines) >= 1

\* C3 witness: a multi-line DeleteSelection has removed the whole document.
C3_WholeDocumentDeleted ==
    /\ last.op = "DeleteSelection"
    /\ last.dl < 0
    /\ lines = NewBufferLines

\* C4: SetMode with the current mode leaves the cursor, the selection and the
\* buffer content as they were.
C4_SetModeIdempotent ==
    [][(last'.op = "SetMode" /\ last'.arg = mode)
          => (cursor' = cursor /\ selection' = selection /\ lines' = lines)]_vars

\* C5: SetMode(m) sets the mode to m; the selection becomes the empty selection
\* at the cursor unless m is Visual, when it is kept; the cursor, buffer content,
\* dirty flag, clipboard and command accumulator are unchanged.
C5_SetModeRule ==
    [][last'.op = "SetMode"
          => /\ ~panicked'
             /\ last'.arg \in Modes
             /\ mode' = last'.arg
             /\ last'.arg # ModeVisual
                   => (selection'.Anchor = cursor /\ selection'.Head = cursor)
             /\ last'.arg = ModeVisual => selection' = selection
             /\ cursor' = cursor
             /\ lines' = lines
             /\ dirty' = dirty
             /\ clipboard' = clipboard
             /\ command' = command]_vars

\* C5 witness: SetMode(Visual) has kept a non-empty selection.
C5_VisualKeepsSelection ==
    /\ last.op = "SetMode"
    /\ mode = ModeVisual
    /\ selection.Anchor # selection.Head

-----------------------------------------------------------------------------
(* Properties of the dirty flag and of ExecuteCommand.                     *)

\* C6: the dirty flag is true exactly when the lines differ from the lines as of
\* the last successful load or save (the single empty line if there was none).
C6_DirtyIffDiffers == dirty = (lines # saved)

\* C6 as amended: whenever the dirty flag is false the lines equal the lines as
\* of the last successful load or save; a dirty buffer may hold the same lines.
C6_CleanMeansSaved == ~dirty => lines = saved

\* C6 witness: an edited buffer has been written and is clean.
C6_CleanAfterSave ==
    /\ last.op = "SaveFile"
    /\ last.wrote
    /\ ~dirty
    /\ lines # NewBufferLines

\* what ExecuteCommand leaves alone besides the accumulator and the dirty flag
ExecFrame ==
    /\ lines' = lines
    /\ filename' = filename
    /\ cursor' = cursor
    /\ selection' = selection
    /\ mode' = mode
    /\ clipboard' = clipboard

\* C7: "q" returns quit=true exactly when the buffer is not dirty; on a dirty
\* buffer it returns false, saves nothing and changes neither the buffer, the
\* dirty flag, the filename, the cursor, the selection, the mode nor the clipboard.
C7_PlainQuit ==
    [][(last'.op = "ExecuteCommand" /\ TrimSpace(command) = <<"q">>)
          => /\ last'.quit = ~dirty
             /\ dirty => (ExecFrame /\ dirty' /\ last'.saves = 0 /\ ~last'.wrote)]_vars

\* C7 witness: "q" on a dirty buffer has returned false.
C7_QuitRefused ==
    /\ last.op = "ExecuteCommand"
    /\ last.cmd = <<"q">>
    /\ ~last.quit
    /\ dirty

\* C8: "wq" calls SaveFile once and returns quit=true whatever the save did;
\* "q!" returns true and saves nothing; "w" calls SaveFile once and returns false.
C8_SaveAndQuit ==
    [][last'.op = "ExecuteCommand"
          => LET cmd == TrimSpace(command) IN
             /\ cmd = <<"w", "q">> => (last'.saves = 1 /\ last'.quit)
             /\ cmd = <<"q", "!">>
                   => (last'.quit /\ last'.saves = 0 /\ ~last'.wrote /\ dirty' = dirty)
             /\ cmd = <<"w">> => (last'.saves = 1 /\ ~last'.quit)]_vars

\* C8 witness: "wq" has returned quit=true although its save failed.
C8_QuitAfterFailedSave ==
    /\ last.op = "ExecuteCommand"
    /\ last.cmd = <<"w", "q">>
    /\ last.err
    /\ last.quit
    /\ dirty

KnownCommands == {<<"w">>, <<"q">>, <<"q", "!">>, <<"w", "q">>}

\* C9: ExecuteCommand leaves the accumulator empty; a command other than "w",
\* "q", "q!" and "wq" returns false, saves nothing and changes nothing else.
C9_AccumulatorCleared ==
    [][last'.op = "ExecuteCommand"
          => /\ command' = << >>
             /\ TrimSpace(command) \notin KnownCommands
                   => (ExecFrame /\ dirty' = dirty /\ ~last'.quit /\ last'.saves = 0
                          /\ ~last'.wrote /\ ~last'.err)]_vars

\* C9 witness: an unrecognised command has been executed on a dirty buffer.
C9_UnknownIgnored ==
    /\ last.op = "ExecuteCommand"
    /\ last.cmd = <<"x">>
    /\ command = << >>
    /\ dirty

-----------------------------------------------------------------------------
(* Properties of the Buffer methods.                                       *)

\* C10: no Buffer method fails at run time, whatever coordinates it is given.
C10_NoRuntimeFailure == ~panicked

-----------------------------------------------------------------------------
(* Properties of load and save.                                            *)

\* C11: SaveFile with no filename returns success, writes nothing and leaves the
\* dirty flag as it was; with a filename and a successful write it clears the
\* dirty flag; with a filename and a failed write it returns the error and leaves
\* the dirty flag as it was; the lines and the filename never change.
C11_SaveFileOutcomes ==
    [][last'.op = "SaveFile"
          => /\ lines' = lines
             /\ filename' = filename
             /\ filename = << >> => (~last'.err /\ ~last'.wrote /\ dirty' = dirty)
             /\ (filename # << >> /\ last'.wrote) => (~last'.err /\ ~dirty')
             /\ (filename # << >> /\ ~last'.wrote) => (last'.err /\ dirty' = dirty)]_vars

\* C11 witness: a save of a dirty, named buffer has failed.
C11_FailedSaveStaysDirty ==
    /\ last.op = "SaveFile"
    /\ filename # << >>
    /\ last.err
    /\ dirty

\* C12: LoadFile of a missing file leaves a single empty line, the given path as
\* filename, a clean buffer and no error; any other read failure returns the
\* error and leaves lines, filename and dirty as they were; a successful read
\* replaces the lines, sets the filename and clears the dirty flag.
C12_LoadFileOutcomes ==
    [][last'.op = "LoadFile"
          => /\ last'.read = "notexist"
                   => (lines' = << << >> >> /\ filename' = last'.arg /\ ~dirty'
                          /\ ~last'.err)
             /\ last'.read = "error"
                   => (last'.err /\ lines' = lines /\ filename' = filename
                          /\ dirty' = dirty)
             /\ last'.read = "ok"
                   => (~last'.err /\ filename' = last'.arg /\ ~dirty'
                          /\ Join(lines') = ReplaceCRLF(last'.text))]_vars

\* C12 witness: a read error has left an edited buffer with another path as it was.
C12_ReadErrorKeepsBuffer ==
    /\ last.op = "LoadFile"
    /\ last.read = "error"
    /\ dirty
    /\ lines # NewBufferLines
    /\ filename # << >>
    /\ filename # last.arg

\* C13: a successful SaveFile right after a successful LoadFile writes the bytes
\* read with every CR LF replaced by LF.
C13_LoadSaveRoundTrip ==
    [][(last.op = "LoadFile" /\ last.read = "ok" /\ last'.op = "SaveFile" /\ last'.wrote)
          => last'.text = ReplaceCRLF(last.text)]_vars

\* C13 witness: a file ending in CR LF has been loaded and written back.
C13_TrailingBreakWritten ==
    /\ last.op = "SaveFile"
    /\ last.wrote
    /\ ~dirty
    /\ Len(lines) = 2
    /\ lines[2] = << >>
    /\ last.text = Join(lines)

-----------------------------------------------------------------------------
(* Properties of ranges.                                                   *)

\* (line, col) order on positions
Before(p, q) == p.Line < q.Line \/ (p.Line = q.Line /\ p.Col < q.Col)

InsidePositions(ls) == {pos \in Positions : Inside(ls, pos)}

\* C14: for all positions p, q inside the buffer the selections {anchor p,
\* head q} and {anchor q, head p} have the same Start() and End(), with Start()
\* not after End(), the same Contains() for every position, the same
\* GetSelectedText, and the same lines and returned position from
\* Buffer.DeleteSelection.
C14_DirectionIrrelevant ==
    \A p \in InsidePositions(lines), q \in InsidePositions(lines) :
        LET s1 == [Anchor |-> p, Head |-> q]
            s2 == [Anchor |-> q, Head |-> p]
        IN  /\ Start(s1) = Start(s2)
            /\ End(s1) = End(s2)
            /\ ~Before(End(s1), Start(s1))
            /\ \A pos \in Positions : Contains(s1, pos) = Contains(s2, pos)
            /\ Buffer_GetSelectedText(lines, s1) = Buffer_GetSelectedText(lines, s2)
            /\ Buffer_DeleteSelection(lines, dirty, s1) = Buffer_DeleteSelection(lines, dirty, s2)

\* C14 witness: DeleteSelection has removed a line break through a selection
\* whose head lies before its anchor.
C14_BackwardSelectionDeleted ==
    /\ last.op = "Buffer.DeleteSelection"
    /\ Before(last.arg.Head, last.arg.Anchor)
    /\ last.dl < 0
    /\ last.pos = last.arg.Head

-----------------------------------------------------------------------------
(* Properties of DeleteSelection, YankSelection and Paste, stated on the   *)
(* document text: the lines joined by line breaks.                         *)

Min(a, b) == IF a <= b THEN a ELSE b

\* the number of characters of the document text before position pos
Offset(ls, pos) == SumLen(SubSeq(ls, 1, pos.Line)) + pos.Line + pos.Col

\* the document text from position s up to position e
TextBetween(ls, s, e) == SubSeq(Join(ls), Offset(ls, s) + 1, Offset(ls, e))

\* the document text with the characters from s up to e replaced by t
Spliced(ls, s, e, t) ==
    SubSeq(Join(ls), 1, Offset(ls, s)) \o t \o SubSeq(Join(ls), Offset(ls, e) + 1, Len(Join(ls)))

CountLF(t) == Cardinality({i \in 1 .. Len(t) : t[i] = LF})

\* the largest column the mode's clamp allows on a line of length n
ModeMaxCol(m, n) == IF m = ModeNormal THEN Max(n - 1, 0) ELSE n

\* what an Editor command that does nothing leaves alone
Untouched ==
    /\ ~panicked'
    /\ UNCHANGED <<lines, filename, dirty, cursor, selection, mode, command, clipboard>>

\* C15: Editor.DeleteSelection on a non-empty selection with both endpoints
\* inside the buffer removes exactly the text from Start up to End: the document
\* text loses those characters, the line count drops by End.line - Start.line,
\* the buffer is dirty, the selection is empty and the cursor is Start clamped by
\* the mode rule; on an empty selection nothing changes.
C15_DeleteSelectionRemovesRange ==
    [][last'.op = "DeleteSelection"
          => IF IsEmpty(selection) THEN Untouched
             ELSE (Inside(lines, selection.Anchor) /\ Inside(lines, selection.Head))
                     => LET s == Start(selection)
                            e == End(selection)
                        IN  /\ ~panicked'
                            /\ Join(lines') = Spliced(lines, s, e, << >>)
                            /\ Len(lines') = Len(lines) - (e.Line - s.Line)
                            /\ dirty'
                            /\ IsEmpty(selection')
                            /\ cursor'.Line = s.Line
                            /\ cursor'.Col
                                  = Min(s.Col, ModeMaxCol(mode, Len(lines'[s.Line + 1])))
                            /\ UNCHANGED <<filename, mode, command, clipboard>>]_vars

\* C15 witness: DeleteSelection has removed a line break and left text behind.
C15_LineBreakDeleted ==
    /\ last.op = "DeleteSelection"
    /\ last.dl < 0
    /\ dirty
    /\ lines # NewBufferLines

C17_PasteSplicesClipboard ==
    [][last'.op = "Paste"
          => IF clipboard = << >> THEN Untouched
             ELSE Inside(lines, cursor)
                     => /\ ~panicked'
                        /\ Join(lines') = Spliced(lines, cursor, cursor, clipboard)
                        /\ Len(lines') = Len(lines) + CountLF(clipboard)
                        /\ Inside(lines', cursor')
                        /\ Offset(lines', cursor') = Offset(lines, cursor) + Len(clipboard)
                        /\ selection' = NewSelection(cursor')
                        /\ clipboard' = clipboard
                        /\ UNCHANGED <<filename, mode, command>>]_vars

\* C17 witness: a clipboard holding a line break has been pasted.
C17_LineBreakPasted ==
    /\ last.op = "Paste"
    /\ last.dl > 0
    /\ CountLF(clipboard) > 0
    /\ cursor.Line > 0

-----------------------------------------------------------------------------
(* Properties of movement, Buffer.DeleteChar and SelectWord.               *)

MovementOps ==
    {"MoveCursor", "MoveCursorTo", "MoveToLineStart", "MoveToLineEnd",
     "MoveWordForward", "MoveWordBackward"}

C19_DeleteCharCases ==
    [][last'.op = "Buffer.DeleteChar"
          => /\ ~panicked'
             /\ LET pos == last'.arg
                    line == lines[pos.Line + 1]
                IN  Inside(lines, pos)
                       => IF pos.Col > 0
                          THEN /\ Len(lines') = Len(lines)
                               /\ lines' = [lines EXCEPT ![pos.Line + 1] =
                                               SubSeq(line, 1, pos.Col - 1)
                                                   \o SubSeq(line, pos.Col + 1, Len(line))]
                               /\ last'.pos = Pos(pos.Line, pos.Col - 1)
                          ELSE IF pos.Line > 0
                          THEN /\ Len(lines') = Len(lines) - 1
                               /\ lines'[pos.Line] = lines[pos.Line] \o line
                               /\ \A i \in 1 .. (pos.Line - 1) : lines'[i] = lines[i]
                               /\ \A i \in (pos.Line + 1) .. Len(lines') :
                                      lines'[i] = lines[i + 1]
                               /\ last'.pos = Pos(pos.Line - 1, Len(lines[pos.Line]))
                          ELSE /\ lines' = lines
                               /\ dirty' = dirty
                               /\ last'.pos = Pos(0, 0)]_vars

\* C19 witness: DeleteChar at the start of a line has merged it onto a
\* non-empty previous line.
C19_LinesMerged ==
    /\ last.op = "Buffer.DeleteChar"
    /\ last.dl = -1
    /\ last.arg.Col = 0
    /\ last.pos.Col > 0

\* C20: SelectWord with the cursor column at or past the end of its line, or on
\* a character outside [A-Za-z0-9_], changes nothing; otherwise the selection
\* becomes {line, s} - {line, e} for the maximal run [s, e) of word characters
\* holding the cursor column and the cursor becomes {line, e}; the buffer
\* content never changes.
C20_SelectWordMaximalRun ==
    [][last'.op = "SelectWord"
          => /\ ~panicked'
             /\ lines' = lines
             /\ dirty' = dirty
             /\ LET line == GetLine(lines, cursor.Line) IN
                IF cursor.Col >= Len(line) \/ line[cursor.Col + 1] \notin AlphaNum
                THEN Untouched
                ELSE \E s \in 0 .. cursor.Col, e \in (cursor.Col + 1) .. Len(line) :
                        /\ \A i \in (s + 1) .. e : line[i] \in AlphaNum
                        /\ s > 0 => line[s] \notin AlphaNum
                        /\ e < Len(line) => line[e + 1] \notin AlphaNum
                        /\ selection' = [Anchor |-> Pos(cursor.Line, s),
                                         Head |-> Pos(cursor.Line, e)]
                        /\ cursor' = Pos(cursor.Line, e)
                        /\ UNCHANGED <<mode, clipboard, filename, command>>]_vars

\* C20 witness: SelectWord has selected the two-letter word of a longer line.
C20_WordSelected ==
    /\ last.op = "SelectWord"
    /\ lines[1] = <<"a", "a", SP, "a">>
    /\ selection = [Anchor |-> Pos(0, 0), Head |-> Pos(0, 2)]
    /\ cursor = Pos(0, 2)

-----------------------------------------------------------------------------
(* Properties of the word motions.                                         *)

OnLastLine == cursor.Line = LineCount(lines) - 1

\* C21: in every mode and from every cursor position, MoveWordForward invoked
\* again and again eventually brings the cursor onto the last line of the buffer.
C21_WordForwardReachesLastLine == (last.op = "MoveWordForward") ~> OnLastLine

\* C22: MoveWordBackward from a cursor inside the buffer: at column 0 with a
\* previous line it moves to the end of that line, clamped by the mode rule; at
\* {0,0} it changes nothing; at a column c > 0 it stays on the line and lands on
\* a column c' < c that is 0 or holds a word character preceded by a non-word
\* character.
C22_WordBackwardCases ==
    [][(last'.op = "MoveWordBackward" /\ Inside(lines, cursor))
          => /\ ~panicked'
             /\ lines' = lines
             /\ IF cursor.Col = 0
                THEN IF cursor.Line > 0
                     THEN cursor' = Pos(cursor.Line - 1,
                                        ModeMaxCol(mode, Len(lines[cursor.Line])))
                     ELSE Untouched
                ELSE LET line == lines[cursor.Line + 1] IN
                     /\ cursor'.Line = cursor.Line
                     /\ 0 <= cursor'.Col
                     /\ cursor'.Col < cursor.Col
                     /\ \/ cursor'.Col = 0
                        \/ /\ line[cursor'.Col + 1] \in AlphaNum
                           /\ line[cursor'.Col] \notin AlphaNum]_vars

-----------------------------------------------------------------------------
(* Properties of a whole session.                                          *)

\* C23: when no file is loaded after the first command, the cursor and both
\* endpoints of the selection are always inside the buffer (a line that exists,
\* a column from 0 to the length of that line), and no Editor command indexes
\* outside a line or the line sequence.
C23_CoordinatesInsideBuffer ==
    /\ ~panicked
    /\ Inside(lines, cursor)
    /\ Inside(lines, selection.Anchor)
    /\ Inside(lines, selection.Head)

\* C23 witness: MoveCursorTo has clamped a target beyond the buffer onto the end
\* of the last line, extending a Visual selection.
C23_TargetClamped ==
    /\ last.op = "MoveCursorTo"
    /\ mode = ModeVisual
    /\ Len(lines) = MaxLines
    /\ cursor = Pos(Len(lines) - 1, Len(lines[Len(lines)]))
    /\ cursor.Col > 0
    /\ selection.Anchor # selection.Head

\* C24: in every mode and for every non-empty selection, YankSelection;
\* DeleteSelection; Paste leaves the line sequence exactly as it was.
C24_YankDeletePasteIdentity ==
    [][last'.op = "YankDeletePaste" => (~panicked' /\ lines' = lines)]_vars

-----------------------------------------------------------------------------
(* Properties of quitting.                                                 *)

\* C25: whenever ExecuteCommand with "q" returns quit=true the lines equal the
\* lines as of the last successful load or save (the single empty line if there
\* was none); every operation other than a load that changes the lines leaves
\* the buffer dirty.
C25_NoLossThroughQuit ==
    /\ []((last.op = "ExecuteCommand" /\ last.cmd = <<"q">> /\ last.quit) => lines = saved)
    /\ [][(lines' # lines /\ last'.op # "LoadFile") => dirty']_vars

\* C25 witness: "q" has quit a buffer that was edited into two empty lines and saved.
C25_QuitAfterSave ==
    /\ last.op = "ExecuteCommand"
    /\ last.cmd = <<"q">>
    /\ last.quit
    /\ lines = << << >>, << >> >>

\* C26: with no filename set, a dirty buffer stays dirty through every call
\* other than a load, "w" and SaveFile included: nothing is written, "q" returns
\* quit=false, and only "q!" and "wq" return quit=true.
C26_UnnamedStaysDirty ==
    [][(filename = << >> /\ dirty /\ last'.op # "LoadFile")
          => /\ dirty'
             /\ filename' = << >>
             /\ ~last'.wrote
             /\ saved' = saved
             /\ last'.op = "ExecuteCommand"
                   => /\ last'.cmd = <<"q">> => ~last'.quit
                      /\ last'.quit => last'.cmd \in {<<"q", "!">>, <<"w", "q">>}]_vars

\* C26 witness: "wq" has quit an edited buffer that has no filename, nothing written.
C26_QuitUnsaved ==
    /\ last.op = "ExecuteCommand"
    /\ last.cmd = <<"w", "q">>
    /\ last.quit
    /\ ~last.wrote
    /\ filename = << >>
    /\ dirty
    /\ lines # saved

=============================================================================
